---------------------------- MODULE Spec2Model ----------------------------
(***************************************************************************)
(* Tabular TD control (SARSA, SARSAMAX / Q-Learning, Expected SARSA) of    *)
(* katnoria/td-methods, modelled as one state machine.                     *)
(*                                                                         *)
(* A run of a notebook is: the "random player" cell, then train(...),      *)
(* which repeats generate_sarsa_episode(...).  `variant` says which of the *)
(* three notebooks runs.  Python floats are modelled as exact rationals    *)
(* <<numerator, denominator>> (denominator > 0, lowest terms); numpy       *)
(* vectors as functions over 0..nA-1; the defaultdict Q as a function      *)
(* whose DOMAIN is the set of keys present.                                *)
(***************************************************************************)
EXTENDS Integers, Sequences, FiniteSets, TLC

VARIABLES
    variant,       \* which notebook: "SARSA", "SARSAMAX" or "EXPECTED"
    pc,            \* position of the notebook run
    envState,      \* the environment's current state (env.s)
    lastaction,    \* the action the environment was last stepped with
    greward,       \* module-level `reward`: <<>> until assigned, else <<r>>
    num_episodes, eps_arg, eps, eps_min, eps_decay, alpha, gamma, plot_every,
    Q,             \* defaultdict(lambda: np.zeros(nA))
    all_rewards, tmp_rewards, avg_rewards,
    i,             \* loop variable of train's for loop
    state, action, next_state, next_action, reward, done, score,
    Qsa,           \* local Qsa of the last update_sarsa_Q call
    u_next_state,  \* argument next_state of the last update_sarsa_Q call
    u_next_action, \* next_action of that call (argument; in SARSAMAX local)
    u_policy,      \* local policy of that call (Expected SARSA), else <<>>
    Q_sarsa_orig,  \* module-level result of train (Expected SARSA, first run)
    Q_sarsa,       \* module-level result of train
    policy,        \* module-level policy array of the extraction cell
    nsteps,        \* env.step calls made in the current episode (history)
    tsteps,        \* env.step calls made by the running cell (history)
    nupdates       \* table updates made in the current episode (history)

vars == <<variant, pc, envState, lastaction, greward, num_episodes, eps_arg, eps, eps_min,
          eps_decay, alpha, gamma, plot_every, Q, all_rewards, tmp_rewards,
          avg_rewards, i, state, action, next_state, next_action, reward,
          done, score, Qsa, u_next_state, u_next_action, u_policy,
          Q_sarsa_orig, Q_sarsa, policy, nsteps, tsteps, nupdates>>

hyper == <<num_episodes, eps_arg, eps_min, eps_decay, alpha, gamma, plot_every>>
history == <<all_rewards, tmp_rewards, avg_rewards>>
locals == <<state, action, next_state, next_action, reward, done, score>>
ulocals == <<Qsa, u_next_state, u_next_action, u_policy>>
results == <<Q_sarsa_orig, Q_sarsa, policy>>
env == <<envState, lastaction>>

---------------------------------------------------------------------------
(* Bounds of the model *)
MaxEpisodes == 2      \* num_episodes ranges over 0..MaxEpisodes
MaxSteps == 6         \* env.step calls explored per cell (player loop, train call)
MaxPlotEvery == 2     \* plot_every ranges over 1..MaxPlotEvery
FloatBits == 4        \* significand bits of rounded arithmetic (a double has 53)
MaxApply == 7         \* applications of the decay explored in SpecDecay

(* Python None (default of next_state / next_action); also "not assigned". *)
None == -1

(* The stub environment: 3 states, 2 actions. *)
nS == 3
nA == 2
Actions == 0 .. (nA - 1)
States == 0 .. (nS - 1)

---------------------------------------------------------------------------
(* Floating point arithmetic, as exact rationals *)
Abs(x) == IF x < 0 THEN -x ELSE x

RECURSIVE GCD(_, _)
GCD(a, b) == IF b = 0 THEN a ELSE GCD(b, a % b)

Rat(n, d) ==
    LET g == GCD(Abs(n), d) IN <<n \div g, d \div g>>

RInt(k) == <<k, 1>>
Zero == RInt(0)
One == RInt(1)
RAdd(x, y) ==
    LET g == GCD(x[2], y[2]) IN
        Rat(x[1] * (y[2] \div g) + y[1] * (x[2] \div g), (x[2] \div g) * y[2])
RNeg(x) == <<-x[1], x[2]>>
RSub(x, y) == RAdd(x, RNeg(y))
RMul(x, y) ==
    LET g1 == GCD(Abs(x[1]), y[2])
        g2 == GCD(Abs(y[1]), x[2])
    IN  Rat((x[1] \div g1) * (y[1] \div g2), (x[2] \div g2) * (y[2] \div g1))
RLess(x, y) ==
    LET g == GCD(x[2], y[2]) IN x[1] * (y[2] \div g) < y[1] * (x[2] \div g)
RLeq(x, y) == ~RLess(y, x)
RMax(x, y) == IF RLess(x, y) THEN y ELSE x

---------------------------------------------------------------------------
(* The environment (external collaborator): reset() and step(action) *)
EnvReset == 0

EnvStep(s, a) ==
    IF s = 0 /\ a = 1 THEN [next_state |-> 1, reward |-> -1, done |-> FALSE]
    ELSE IF s = 1 /\ a = 1 THEN [next_state |-> 2, reward |-> -1, done |-> TRUE]
    ELSE [next_state |-> 0, reward |-> -10, done |-> FALSE]

---------------------------------------------------------------------------
(* The action-value table *)
Zeros == [a \in Actions |-> Zero]

(* Faulty variant of Lookup: a fresh default vector on every lookup *)
LookupFresh(T, k) == (k :> Zeros) @@ T

(* The table after the expression Q[k] was evaluated: defaultdict stores   *)
(* the default on a missing key.                                           *)
Lookup(T, k) == IF k \in DOMAIN T THEN T ELSE (k :> Zeros) @@ T

(* Faulty variant of argmax: the last index holding the maximum *)
argmaxLast(v) ==
    CHOOSE a \in Actions :
        /\ \A b \in Actions : RLeq(v[b], v[a])
        /\ \A b \in Actions : b > a => RLess(v[b], v[a])

(* np.argmax: the first index holding the maximum *)
argmax(v) ==
    CHOOSE a \in Actions :
        /\ \A b \in Actions : RLeq(v[b], v[a])
        /\ \A b \in Actions : b < a => RLess(v[b], v[a])

(* Faulty variant of eps_greedy: `rand <= eps` written for `rand < eps` *)
eps_greedy_leq(e, T, s) ==
    {[action |-> a, Q |-> T] : a \in {b \in Actions : RLeq(Zero, e)}}
    \cup
    {[action |-> argmax(Lookup(T, s)[s]), Q |-> Lookup(T, s)] :
        x \in {y \in {0} : RLess(e, One)}}

(* eps_greedy(eps, Q, state, nA): the set of possible outcomes, each the   *)
(* action returned and the table left behind.  np.random.rand() is in      *)
(* [0, 1): `rand < eps` can be true iff eps > 0, false iff eps < 1.        *)
eps_greedy(e, T, s) ==
    {[action |-> a, Q |-> T] : a \in {b \in Actions : RLess(Zero, e)}}
    \cup
    {[action |-> argmax(Lookup(T, s)[s]), Q |-> Lookup(T, s)] :
        x \in {y \in {0} : RLess(e, One)}}


---------------------------------------------------------------------------
(* The update rule.  `reward` inside update_sarsa_Q is not a parameter and *)
(* not a local: Python resolves it to the module-level variable.           *)
TDValue(T, s, a, q) ==
    RAdd(T[s][a],
         RMul(alpha, RSub(RAdd(RInt(greward[1]), RMul(gamma, q)), T[s][a])))

(* SARSA: update_sarsa_Q(alpha, gamma, Q, state, action, next_state,       *)
(* next_action).  Result: the local Qsa, the value returned, and the table *)
(* as the lookups made by the call leave it.                               *)
SarsaUpdate(T, s, a, ns, na) ==
    LET T1 == IF ns # None THEN Lookup(T, ns) ELSE T
        q == IF ns # None THEN T1[ns][na] ELSE Zero
        T2 == Lookup(T1, s)
    IN  [Qsa |-> q, next_action |-> na, policy |-> <<>>,
         value |-> TDValue(T2, s, a, q), Q |-> T2]

(* Faulty variant of SarsamaxUpdate: np.argmax(Q[state]) picks the index *)
SarsamaxUpdateArgmaxOfState(T, s, a, ns) ==
    LET T1 == Lookup(Lookup(T, ns), s)
        na == argmax(T1[s])
        q == IF ns # None THEN T1[ns][na] ELSE Zero
    IN  [Qsa |-> q, next_action |-> na, policy |-> <<>>,
         value |-> TDValue(T1, s, a, q), Q |-> T1]

(* SARSAMAX: np.argmax(Q[next_state]) is evaluated before the None test.   *)
SarsamaxUpdate(T, s, a, ns) ==
    LET T1 == Lookup(T, ns)
        na == argmax(T1[ns])
        q == IF ns # None THEN T1[ns][na] ELSE Zero
        T2 == Lookup(T1, s)
    IN  [Qsa |-> q, next_action |-> na, policy |-> <<>>,
         value |-> TDValue(T2, s, a, q), Q |-> T2]

(* Faulty variant of Policy: the greedy action gets 1 - eps only *)
PolicyGreedyOnly(e, v) ==
    [b \in Actions |->
        IF b = argmax(v) THEN RSub(One, e) ELSE RMul(e, Rat(1, nA))]

(* Expected SARSA: policy = ones(nA) * eps / nA, the greedy action's entry *)
(* overwritten by 1 - eps + eps / nA; Qsa = dot(Q[next_state], policy).    *)
Policy(e, v) ==
    [b \in Actions |->
        IF b = argmax(v)
        THEN RAdd(RSub(One, e), RMul(e, Rat(1, nA)))
        ELSE RMul(e, Rat(1, nA))]

RECURSIVE DotUpTo(_, _, _)
DotUpTo(v, w, k) ==
    IF k < 0 THEN Zero ELSE RAdd(DotUpTo(v, w, k - 1), RMul(v[k], w[k]))

Dot(v, w) == DotUpTo(v, w, nA - 1)

ExpectedUpdate(e, T, s, a, ns) ==
    LET T1 == IF ns # None THEN Lookup(T, ns) ELSE T
        q == IF ns # None THEN Dot(T1[ns], Policy(e, T1[ns])) ELSE Zero
        T2 == Lookup(T1, s)
    IN  [Qsa |-> q, next_action |-> None,
         policy |-> IF ns # None THEN Policy(e, T1[ns]) ELSE <<>>,
         value |-> TDValue(T2, s, a, q), Q |-> T2]

(* The call made by generate_sarsa_episode of notebook `variant` *)
update_sarsa_Q(T, s, a, ns, na) ==
    IF variant = "SARSA" THEN SarsaUpdate(T, s, a, ns, na)
    ELSE IF variant = "SARSAMAX" THEN SarsamaxUpdate(T, s, a, ns)
    ELSE ExpectedUpdate(eps, T, s, a, ns)

(* Faulty variant of Store: the value written to every action of the row *)
StoreRow(T, s, a, x) == [Lookup(T, s) EXCEPT ![s] = [b \in Actions |-> x]]

(* Q[state][action] = value *)
Store(T, s, a, x) == [Lookup(T, s) EXCEPT ![s][a] = x]

---------------------------------------------------------------------------
(* Reward bookkeeping of train *)
RECURSIVE SumSeq(_)
SumSeq(q) == IF q = <<>> THEN 0 ELSE Head(q) + SumSeq(Tail(q))

(* np.mean of a non-empty sequence of integers *)
Mean(q) == Rat(SumSeq(q), Len(q))

(* Faulty variant of DequeAppend: nothing is ever dropped *)
DequeAppendUnbounded(q, x, m) == Append(q, x)

(* deque(maxlen = m).append(x): the oldest entry is dropped when full *)
DequeAppend(q, x, m) ==
    IF m = 0 THEN <<>>
    ELSE IF Len(q) < m THEN Append(q, x)
    ELSE Append(Tail(q), x)

(* Faulty variants of Decay: the floor forgotten; min written for max *)
DecayNoFloor(e, d, m) == RMul(e, d)

DecayMin(e, d, m) == IF RLess(RMul(e, d), m) THEN RMul(e, d) ELSE m

(* max(eps * eps_decay, eps_min) *)
Decay(e, d, m) == RMax(RMul(e, d), m)

---------------------------------------------------------------------------
(* Inputs: the hyperparameters a run is started with *)
EpsSet == {<<1, 1>>, <<1, 8>>}
EpsMinSet == {<<1, 4>>}
EpsDecaySet == {<<1, 2>>, <<1, 1>>}
AlphaSet == {<<1, 2>>, <<1, 1>>}
GammaSet == {<<1, 1>>, <<1, 2>>}
Variants == {"SARSA", "SARSAMAX", "EXPECTED"}

(* Exact rationals have to fit TLC's 32-bit integers: every update can     *)
(* multiply a denominator by those of alpha and gamma and, in Expected     *)
(* SARSA, of eps / nA.                                                     *)
InRange ==
    variant = "EXPECTED" =>
        \/ alpha = One /\ gamma = One
        \/ eps_arg = One /\ eps_decay = One

Init ==
    /\ variant \in Variants
    /\ pc = "player_reset"
    /\ envState = None
    /\ lastaction = None
    /\ greward = <<>>
    /\ num_episodes \in 0 .. MaxEpisodes
    /\ eps_arg \in EpsSet
    /\ eps_min \in EpsMinSet
    /\ eps_decay \in EpsDecaySet
    /\ alpha \in AlphaSet
    /\ gamma \in GammaSet
    /\ plot_every \in 1 .. MaxPlotEvery
    /\ eps = eps_arg
    /\ Q = <<>>
    /\ all_rewards = <<>>
    /\ tmp_rewards = <<>>
    /\ avg_rewards = <<>>
    /\ i = 0
    /\ state = None
    /\ action = None
    /\ next_state = None
    /\ next_action = None
    /\ reward = 0
    /\ done = FALSE
    /\ score = 0
    /\ Qsa = Zero
    /\ u_next_state = None
    /\ u_next_action = None
    /\ u_policy = <<>>
    /\ Q_sarsa_orig = <<>>
    /\ Q_sarsa = <<>>
    /\ policy = <<>>
    /\ nsteps = 0
    /\ tsteps = 0
    /\ nupdates = 0
    /\ InRange

---------------------------------------------------------------------------
(* The "random player" cell: env.reset(), then random actions until done.  *)
(* Its `state, reward, done, info = env.step(action)` assigns the          *)
(* module-level names; only `reward` is read later (by update_sarsa_Q).    *)
PlayerReset ==
    /\ pc = "player_reset"
    /\ envState' = EnvReset
    /\ lastaction' = None
    /\ tsteps' = 0
    /\ pc' = "player_loop"
    /\ UNCHANGED <<variant, results, greward, hyper, eps, Q, history, i, locals, ulocals,
                   nsteps, nupdates>>

PlayerStep ==
    /\ pc = "player_loop"
    /\ tsteps < MaxSteps
    /\ \E a \in Actions :
        LET r == EnvStep(envState, a) IN
            /\ envState' = r.next_state
            /\ lastaction' = a
            /\ greward' = <<r.reward>>
            /\ pc' = IF r.done THEN "call_train" ELSE "player_loop"
    /\ tsteps' = tsteps + 1
    /\ UNCHANGED <<variant, results, hyper, eps, Q, history, i, locals, ulocals, nsteps,
                   nupdates>>

---------------------------------------------------------------------------
(* train(env, num_episodes, eps, eps_min, eps_decay, alpha, gamma,         *)
(* plot_every)                                                             *)
TrainEnter ==
    /\ pc = "call_train"
    /\ Q' = <<>>
    /\ all_rewards' = <<>>
    /\ tmp_rewards' = <<>>
    /\ avg_rewards' = <<>>
    /\ eps' = eps_arg
    /\ i' = 0
    /\ tsteps' = 0
    /\ pc' = "for"
    /\ UNCHANGED <<variant, results, env, greward, hyper, locals, ulocals, nsteps,
                   nupdates>>

(* Faulty variant of ForNext: the first episode runs with the raw eps, the *)
(* decay being applied after each episode instead of before it.           *)
ForNextDecayAfter ==
    /\ pc = "for"
    /\ i < num_episodes
    /\ i' = i + 1
    /\ eps' = IF i = 0 THEN eps ELSE Decay(eps, eps_decay, eps_min)
    /\ pc' = "reset"
    /\ UNCHANGED <<variant, results, env, greward, hyper, Q, history, locals, ulocals,
                   nsteps, nupdates, tsteps>>

(* Faulty variant of ForNext: range(1, num_episodes + 2) *)
ForNextOneMore ==
    /\ pc = "for"
    /\ i <= num_episodes
    /\ i' = i + 1
    /\ eps' = Decay(eps, eps_decay, eps_min)
    /\ pc' = "reset"
    /\ UNCHANGED <<variant, results, env, greward, hyper, Q, history, locals, ulocals,
                   nsteps, nupdates, tsteps>>

(* for i in range(1, num_episodes + 1): eps = max(eps * eps_decay, eps_min) *)
ForNext ==
    /\ pc = "for"
    /\ i < num_episodes
    /\ i' = i + 1
    /\ eps' = Decay(eps, eps_decay, eps_min)
    /\ pc' = "reset"
    /\ UNCHANGED <<variant, results, env, greward, hyper, Q, history, locals, ulocals,
                   nsteps, nupdates, tsteps>>

(* return Q, all_rewards, avg_rewards; the calling cell binds the table to *)
(* Q_sarsa (to Q_sarsa_orig in the first training cell of Expected SARSA). *)
TrainReturn ==
    /\ pc = "for"
    /\ i >= num_episodes
    /\ Q_sarsa_orig' = IF variant = "EXPECTED" THEN Q ELSE Q_sarsa_orig
    /\ Q_sarsa' = IF variant = "EXPECTED" THEN Q_sarsa ELSE Q
    /\ pc' = "done"
    /\ UNCHANGED <<variant, policy, env, greward, hyper, eps, Q, history, i,
                   locals, ulocals, nsteps, nupdates, tsteps>>

---------------------------------------------------------------------------
(* Faulty variant of EpisodeReset: every episode starting on a new table *)
EpisodeResetNewTable ==
    /\ pc = "reset"
    /\ envState' = EnvReset
    /\ lastaction' = None
    /\ state' = EnvReset
    /\ score' = 0
    /\ action' = None
    /\ next_state' = None
    /\ next_action' = None
    /\ reward' = 0
    /\ done' = FALSE
    /\ nsteps' = 0
    /\ nupdates' = 0
    /\ Q' = <<>>
    /\ pc' = "select"
    /\ UNCHANGED <<variant, results, greward, hyper, eps, history, i, ulocals, tsteps>>

(* generate_sarsa_episode(env, Q, eps, alpha, gamma) *)
EpisodeReset ==
    /\ pc = "reset"
    /\ envState' = EnvReset
    /\ lastaction' = None
    /\ state' = EnvReset
    /\ score' = 0
    /\ action' = None
    /\ next_state' = None
    /\ next_action' = None
    /\ reward' = 0
    /\ done' = FALSE
    /\ nsteps' = 0
    /\ nupdates' = 0
    /\ pc' = "select"
    /\ UNCHANGED <<variant, results, greward, hyper, eps, Q, history, i, ulocals, tsteps>>

(* action = eps_greedy(eps, Q, state, nA): before the loop in SARSA, at    *)
(* the head of every iteration in SARSAMAX and Expected SARSA.             *)
Select ==
    /\ pc = "select"
    /\ \E o \in eps_greedy(eps, Q, state) :
        /\ action' = o.action
        /\ Q' = o.Q
    /\ pc' = "step"
    /\ UNCHANGED <<variant, results, env, greward, hyper, eps, history, i, state,
                   next_state, next_action, reward, done, score, ulocals, nsteps,
                   nupdates, tsteps>>

(* Faulty variant of Step: the reward of the terminal step left out of the *)
(* score.                                                                  *)
StepScoreNonTerminal ==
    /\ pc = "step"
    /\ tsteps < MaxSteps
    /\ LET r == EnvStep(envState, action) IN
        /\ envState' = r.next_state
        /\ lastaction' = action
        /\ next_state' = r.next_state
        /\ reward' = r.reward
        /\ done' = r.done
        /\ score' = IF r.done THEN score ELSE score + r.reward
    /\ nsteps' = nsteps + 1
    /\ tsteps' = tsteps + 1
    /\ pc' = IF variant = "SARSA" THEN "lookahead" ELSE "update"
    /\ UNCHANGED <<variant, results, greward, hyper, eps, Q, history, i, state, action,
                   next_action, ulocals, nupdates>>

(* Faulty variant of Step: the step's reward also assigned to the          *)
(* module-level name.                                                      *)
StepAssignsGlobal ==
    /\ pc = "step"
    /\ tsteps < MaxSteps
    /\ LET r == EnvStep(envState, action) IN
        /\ envState' = r.next_state
        /\ lastaction' = action
        /\ next_state' = r.next_state
        /\ reward' = r.reward
        /\ greward' = <<r.reward>>
        /\ done' = r.done
        /\ score' = score + r.reward
    /\ nsteps' = nsteps + 1
    /\ tsteps' = tsteps + 1
    /\ pc' = IF variant = "SARSA" THEN "lookahead" ELSE "update"
    /\ UNCHANGED <<variant, results, hyper, eps, Q, history, i, state, action,
                   next_action, ulocals, nupdates>>

(* next_state, reward, done, info = env.step(action); score += reward *)
Step ==
    /\ pc = "step"
    /\ tsteps < MaxSteps
    /\ LET r == EnvStep(envState, action) IN
        /\ envState' = r.next_state
        /\ lastaction' = action
        /\ next_state' = r.next_state
        /\ reward' = r.reward
        /\ done' = r.done
        /\ score' = score + r.reward
    /\ nsteps' = nsteps + 1
    /\ tsteps' = tsteps + 1
    /\ pc' = IF variant = "SARSA" THEN "lookahead" ELSE "update"
    /\ UNCHANGED <<variant, results, greward, hyper, eps, Q, history, i, state, action,
                   next_action, ulocals, nupdates>>

(* SARSA only: next_action = eps_greedy(eps, Q, next_state, nA) *)
Lookahead ==
    /\ pc = "lookahead"
    /\ \E o \in eps_greedy(eps, Q, next_state) :
        /\ next_action' = o.action
        /\ Q' = o.Q
    /\ pc' = "update"
    /\ UNCHANGED <<variant, results, env, greward, hyper, eps, history, i, state,
                   action, next_state, reward, done, score, ulocals, nsteps,
                   nupdates, tsteps>>

(* Faulty variant of UpdateStep: SARSA's loop selecting its action afresh  *)
(* at the head of the next iteration, as the other two notebooks do.       *)
UpdateStepReselect ==
    /\ pc = "update"
    /\ ~done
    /\ LET u == update_sarsa_Q(Q, state, action, next_state, next_action) IN
        /\ Q' = Store(u.Q, state, action, u.value)
        /\ Qsa' = u.Qsa
        /\ u_next_action' = u.next_action
        /\ u_policy' = u.policy
    /\ u_next_state' = next_state
    /\ state' = next_state
    /\ nupdates' = nupdates + 1
    /\ pc' = "select"
    /\ UNCHANGED <<variant, results, env, greward, hyper, eps, history, i, action,
                   next_state, next_action, reward, done, score, nsteps,
                   tsteps>>

(* if not done: Q[state][action] = update_sarsa_Q(..., next_state[,        *)
(* next_action]); state = next_state [; action = next_action]              *)
UpdateStep ==
    /\ pc = "update"
    /\ ~done
    /\ LET u == update_sarsa_Q(Q, state, action, next_state, next_action) IN
        /\ Q' = Store(u.Q, state, action, u.value)
        /\ Qsa' = u.Qsa
        /\ u_next_action' = u.next_action
        /\ u_policy' = u.policy
    /\ u_next_state' = next_state
    /\ state' = next_state
    /\ action' = IF variant = "SARSA" THEN next_action ELSE action
    /\ nupdates' = nupdates + 1
    /\ pc' = IF variant = "SARSA" THEN "step" ELSE "select"
    /\ UNCHANGED <<variant, results, env, greward, hyper, eps, history, i,
                   next_state, next_action, reward, done, score, nsteps, tsteps>>

(* Faulty variants of UpdateTerminal: the final update bootstrapping from  *)
(* the current state; the loop left without the final update.              *)
UpdateTerminalBootstrap ==
    /\ pc = "update"
    /\ done
    /\ LET u == update_sarsa_Q(Q, state, action, state, action) IN
        /\ Q' = Store(u.Q, state, action, u.value)
        /\ Qsa' = u.Qsa
        /\ u_next_action' = u.next_action
        /\ u_policy' = u.policy
    /\ u_next_state' = None
    /\ nupdates' = nupdates + 1
    /\ pc' = "ret"
    /\ UNCHANGED <<variant, results, env, greward, hyper, eps, history, i, locals,
                   nsteps, tsteps>>

UpdateTerminalSkip ==
    /\ pc = "update"
    /\ done
    /\ pc' = "ret"
    /\ UNCHANGED <<variant, results, env, greward, hyper, eps, Q, history, i, locals,
                   ulocals, nsteps, tsteps, nupdates>>

(* Faulty variant of UpdateTerminal: no break after the final update, the   *)
(* loop going on to its next iteration.                                    *)
UpdateTerminalNoBreak ==
    /\ pc = "update"
    /\ done
    /\ LET u == update_sarsa_Q(Q, state, action, None, None) IN
        /\ Q' = Store(u.Q, state, action, u.value)
        /\ Qsa' = u.Qsa
        /\ u_next_action' = u.next_action
        /\ u_policy' = u.policy
    /\ u_next_state' = None
    /\ nupdates' = nupdates + 1
    /\ pc' = IF variant = "SARSA" THEN "step" ELSE "select"
    /\ UNCHANGED <<variant, results, env, greward, hyper, eps, history, i, locals,
                   nsteps, tsteps>>

(* Faulty variant of UpdateTerminal: the value stored under next_state *)
UpdateTerminalStoreNext ==
    /\ pc = "update"
    /\ done
    /\ LET u == update_sarsa_Q(Q, state, action, None, None) IN
        /\ Q' = Store(u.Q, next_state, action, u.value)
        /\ Qsa' = u.Qsa
        /\ u_next_action' = u.next_action
        /\ u_policy' = u.policy
    /\ u_next_state' = None
    /\ nupdates' = nupdates + 1
    /\ pc' = "ret"
    /\ UNCHANGED <<variant, results, env, greward, hyper, eps, history, i, locals,
                   nsteps, tsteps>>

(* if done: Q[state][action] = update_sarsa_Q(..., state, action); break   *)
UpdateTerminal ==
    /\ pc = "update"
    /\ done
    /\ LET u == update_sarsa_Q(Q, state, action, None, None) IN
        /\ Q' = Store(u.Q, state, action, u.value)
        /\ Qsa' = u.Qsa
        /\ u_next_action' = u.next_action
        /\ u_policy' = u.policy
    /\ u_next_state' = None
    /\ nupdates' = nupdates + 1
    /\ pc' = "ret"
    /\ UNCHANGED <<variant, results, env, greward, hyper, eps, history, i, locals,
                   nsteps, tsteps>>

(* Faulty variant of EpisodeReturn: the full history kept in a window of   *)
(* plot_every entries, like tmp_rewards.                                   *)
EpisodeReturnWindowed ==
    /\ pc = "ret"
    /\ all_rewards' = DequeAppend(all_rewards, score, plot_every)
    /\ tmp_rewards' = DequeAppend(tmp_rewards, score, plot_every)
    /\ avg_rewards' =
          IF i % plot_every = 0
          THEN DequeAppend(avg_rewards, Mean(tmp_rewards'), num_episodes)
          ELSE avg_rewards
    /\ pc' = "for"
    /\ UNCHANGED <<variant, results, env, greward, hyper, eps, Q, i, locals, ulocals,
                   nsteps, nupdates, tsteps>>

(* Faulty variant of EpisodeReturn: the averaged series created with       *)
(* maxlen = plot_every, like tmp_rewards.                                  *)
EpisodeReturnAvgWindowed ==
    /\ pc = "ret"
    /\ all_rewards' = Append(all_rewards, score)
    /\ tmp_rewards' = DequeAppend(tmp_rewards, score, plot_every)
    /\ avg_rewards' =
          IF i % plot_every = 0
          THEN DequeAppend(avg_rewards, Mean(tmp_rewards'), plot_every)
          ELSE avg_rewards
    /\ pc' = "for"
    /\ UNCHANGED <<variant, results, env, greward, hyper, eps, Q, i, locals, ulocals,
                   nsteps, nupdates, tsteps>>

(* return Q, score; then in train: all_rewards.append(score),              *)
(* tmp_rewards.append(score), and the average every plot_every episodes.   *)
EpisodeReturn ==
    /\ pc = "ret"
    /\ all_rewards' = Append(all_rewards, score)
    /\ tmp_rewards' = DequeAppend(tmp_rewards, score, plot_every)
    /\ avg_rewards' =
          IF i % plot_every = 0
          THEN DequeAppend(avg_rewards, Mean(tmp_rewards'), num_episodes)
          ELSE avg_rewards
    /\ pc' = "for"
    /\ UNCHANGED <<variant, results, env, greward, hyper, eps, Q, i, locals, ulocals,
                   nsteps, nupdates, tsteps>>

Next ==
    \/ PlayerReset
    \/ PlayerStep
    \/ TrainEnter
    \/ ForNext
    \/ TrainReturn
    \/ EpisodeReset
    \/ Select
    \/ Step
    \/ Lookahead
    \/ UpdateStep
    \/ UpdateTerminal
    \/ EpisodeReturn

Spec == Init /\ [][Next]_vars

---------------------------------------------------------------------------
(* The decay statement of train's loop on its own, applied repeatedly:     *)
(* eps = max(eps * eps_decay, eps_min).                                    *)
DecayEpsSet == {<<0, 1>>, <<1, 8>>, <<1, 2>>, <<1, 1>>}
DecayEpsMinSet == {<<0, 1>>, <<1, 5>>, <<1, 4>>}
DecayRateSet == {<<1, 2>>, <<3, 4>>}

InitDecay ==
    /\ variant = "SARSA"
    /\ pc = "decay"
    /\ envState = None
    /\ lastaction = None
    /\ greward = <<>>
    /\ num_episodes = MaxApply
    /\ eps_arg \in DecayEpsSet
    /\ eps_min \in DecayEpsMinSet
    /\ eps_decay \in DecayRateSet
    /\ alpha = One
    /\ gamma = One
    /\ plot_every = 1
    /\ eps = eps_arg
    /\ Q = <<>>
    /\ all_rewards = <<>>
    /\ tmp_rewards = <<>>
    /\ avg_rewards = <<>>
    /\ i = 0
    /\ state = None
    /\ action = None
    /\ next_state = None
    /\ next_action = None
    /\ reward = 0
    /\ done = FALSE
    /\ score = 0
    /\ Qsa = Zero
    /\ u_next_state = None
    /\ u_next_action = None
    /\ u_policy = <<>>
    /\ Q_sarsa_orig = <<>>
    /\ Q_sarsa = <<>>
    /\ policy = <<>>
    /\ nsteps = 0
    /\ tsteps = 0
    /\ nupdates = 0

ApplyDecay ==
    /\ pc = "decay"
    /\ i < MaxApply
    /\ i' = i + 1
    /\ eps' = Decay(eps, eps_decay, eps_min)
    /\ UNCHANGED <<variant, results, pc, env, greward, hyper, Q, history, locals,
                   ulocals, nsteps, tsteps, nupdates>>

SpecDecay == InitDecay /\ [][ApplyDecay]_vars /\ WF_vars(ApplyDecay)

---------------------------------------------------------------------------
(* eps_greedy(eps, Q, state, nA) on its own, called once on a table, a     *)
(* state and an eps taken from small sets (eps = 0 and eps > 1 included).  *)
SelEpsSet == {<<0, 1>>, <<1, 4>>, <<1, 1>>, <<3, 2>>}
SelValues == {Zero, RInt(-1)}
SelTables == UNION {[S -> [Actions -> SelValues]] : S \in SUBSET States}

InitSelect ==
    /\ variant = "SARSA"
    /\ pc = "choose"
    /\ envState = None
    /\ lastaction = None
    /\ greward = <<>>
    /\ num_episodes = 1
    /\ eps_arg \in SelEpsSet
    /\ eps_min = Zero
    /\ eps_decay = One
    /\ alpha = One
    /\ gamma = One
    /\ plot_every = 1
    /\ eps = eps_arg
    /\ Q \in SelTables
    /\ all_rewards = <<>>
    /\ tmp_rewards = <<>>
    /\ avg_rewards = <<>>
    /\ i = 1
    /\ state \in States
    /\ action = None
    /\ next_state = None
    /\ next_action = None
    /\ reward = 0
    /\ done = FALSE
    /\ score = 0
    /\ Qsa = Zero
    /\ u_next_state = None
    /\ u_next_action = None
    /\ u_policy = <<>>
    /\ Q_sarsa_orig = <<>>
    /\ Q_sarsa = <<>>
    /\ policy = <<>>
    /\ nsteps = 0
    /\ tsteps = 0
    /\ nupdates = 0

SelectCall ==
    /\ pc = "choose"
    /\ \E o \in eps_greedy(eps, Q, state) :
        /\ action' = o.action
        /\ Q' = o.Q
    /\ pc' = "chosen"
    /\ UNCHANGED <<variant, results, env, greward, hyper, eps, history, i, state,
                   next_state, next_action, reward, done, score, ulocals,
                   nsteps, nupdates, tsteps>>

SpecSelect == InitSelect /\ [][SelectCall]_vars

---------------------------------------------------------------------------
(* The policy vector of Expected SARSA's update_sarsa_Q with the rounding  *)
(* of binary floating point (round to nearest, ties to even) on            *)
(* FloatBits significand bits, for values >= 0.                            *)
RECURSIVE Pow2(_)
Pow2(k) == IF k = 0 THEN 1 ELSE 2 * Pow2(k - 1)

(* The power of two s with 2^(FloatBits-1) <= x * s < 2^FloatBits *)
RECURSIVE FScale(_, _)
FScale(x, s) ==
    IF RLess(RMul(x, s), RInt(Pow2(FloatBits - 1)))
    THEN FScale(x, RMul(s, RInt(2)))
    ELSE IF RLeq(RInt(Pow2(FloatBits)), RMul(x, s))
         THEN FScale(x, RMul(s, Rat(1, 2)))
         ELSE s

RoundHalfEven(y) ==
    LET f == y[1] \div y[2]
        r == y[1] - f * y[2]
    IN  IF 2 * r < y[2] THEN f
        ELSE IF 2 * r > y[2] THEN f + 1
        ELSE IF f % 2 = 0 THEN f ELSE f + 1

(* The floating-point number nearest to x *)
Fl(x) ==
    IF x = Zero THEN Zero
    ELSE LET s == FScale(x, One)
         IN  RMul(RInt(RoundHalfEven(RMul(x, s))), <<s[2], s[1]>>)

(* Faulty variant of PolicyFl: the greedy action gets 1 - eps only *)
PolicyFlNoShare(e, v) ==
    [b \in Actions |->
        IF b = argmax(v)
        THEN Fl(RSub(One, e))
        ELSE Fl(RMul(e, Rat(1, nA)))]

(* policy = np.ones(nA) * eps/nA; policy[argmax] = 1 - eps + eps/nA *)
PolicyFl(e, v) ==
    [b \in Actions |->
        IF b = argmax(v)
        THEN Fl(RAdd(Fl(RSub(One, e)), Fl(RMul(e, Rat(1, nA)))))
        ELSE Fl(RMul(e, Rat(1, nA)))]

(* The values of eps in [0, 1] that are floating-point numbers *)
FloatEps == {Rat(k, Pow2(FloatBits)) : k \in 0 .. Pow2(FloatBits)}

InitPolicy ==
    /\ variant = "EXPECTED"
    /\ pc = "policy"
    /\ envState = None
    /\ lastaction = None
    /\ greward = <<>>
    /\ num_episodes = 1
    /\ eps_arg \in FloatEps
    /\ eps_min = Zero
    /\ eps_decay = One
    /\ alpha = One
    /\ gamma = One
    /\ plot_every = 1
    /\ eps = eps_arg
    /\ Q \in SelTables
    /\ all_rewards = <<>>
    /\ tmp_rewards = <<>>
    /\ avg_rewards = <<>>
    /\ i = 1
    /\ state = None
    /\ action = None
    /\ next_state \in States
    /\ next_action = None
    /\ reward = 0
    /\ done = FALSE
    /\ score = 0
    /\ Qsa = Zero
    /\ u_next_state = None
    /\ u_next_action = None
    /\ u_policy = <<>>
    /\ Q_sarsa_orig = <<>>
    /\ Q_sarsa = <<>>
    /\ policy = <<>>
    /\ nsteps = 0
    /\ tsteps = 0
    /\ nupdates = 0

PolicyCall ==
    /\ pc = "policy"
    /\ u_policy' = PolicyFl(eps, Lookup(Q, next_state)[next_state])
    /\ Q' = Lookup(Q, next_state)
    /\ u_next_state' = next_state
    /\ pc' = "policy_done"
    /\ UNCHANGED <<variant, results, env, greward, hyper, eps, history, i,
                   locals, Qsa, u_next_action, nsteps, nupdates, tsteps>>

SpecPolicy == InitPolicy /\ [][PolicyCall]_vars

---------------------------------------------------------------------------
(* The policy extraction cell: one entry per environment state, from the   *)
(* tables the train cells have bound.                                      *)
Sentinel == -1

(* The table whose vectors the cell passes to np.argmax *)
ReadTable == IF variant = "EXPECTED" THEN Q_sarsa_orig ELSE Q_sarsa

(* A defaultdict read with [key] inserts the default row *)
RECURSIVE LookupAll(_, _)
LookupAll(T, K) ==
    IF K = {} THEN T
    ELSE LET k == CHOOSE x \in K : TRUE
         IN  LookupAll(Lookup(T, k), K \ {k})

InitExtract ==
    /\ variant \in Variants
    /\ pc = "extract"
    /\ envState = None
    /\ lastaction = None
    /\ greward = <<>>
    /\ num_episodes = 1
    /\ eps_arg = One
    /\ eps_min = Zero
    /\ eps_decay = One
    /\ alpha = One
    /\ gamma = One
    /\ plot_every = 1
    /\ eps = One
    /\ Q = <<>>
    /\ all_rewards = <<>>
    /\ tmp_rewards = <<>>
    /\ avg_rewards = <<>>
    /\ i = 1
    /\ state = None
    /\ action = None
    /\ next_state = None
    /\ next_action = None
    /\ reward = 0
    /\ done = FALSE
    /\ score = 0
    /\ Qsa = Zero
    /\ u_next_state = None
    /\ u_next_action = None
    /\ u_policy = <<>>
    /\ Q_sarsa \in SelTables
    /\ Q_sarsa_orig \in IF variant = "EXPECTED" THEN SelTables ELSE {<<>>}
    /\ policy = <<>>
    /\ nsteps = 0
    /\ tsteps = 0
    /\ nupdates = 0

(* policy = np.array([np.argmax(T[key]) if key in Q_sarsa else -1 ...])    *)
(* with T = Q_sarsa, and T = Q_sarsa_orig in the Expected SARSA notebook   *)
Extract ==
    /\ pc = "extract"
    /\ policy' = [key \in States |->
                    IF key \in DOMAIN Q_sarsa
                    THEN argmax(Lookup(ReadTable, key)[key])
                    ELSE Sentinel]
    /\ IF variant = "EXPECTED"
       THEN /\ Q_sarsa_orig' = LookupAll(Q_sarsa_orig, States \cap DOMAIN Q_sarsa)
            /\ Q_sarsa' = Q_sarsa
       ELSE UNCHANGED <<Q_sarsa_orig, Q_sarsa>>
    /\ pc' = "extracted"
    /\ UNCHANGED <<variant, env, greward, hyper, eps, Q, history, i, locals,
                   ulocals, nsteps, nupdates, tsteps>>

SpecExtract == InitExtract /\ [][Extract]_vars

---------------------------------------------------------------------------
(* The notebook run with an environment whose reset() or step() may raise: *)
(* neither generate_sarsa_episode nor train has a try statement, so the    *)
(* exception leaves both and the cell stops.                               *)
ResetRaises ==
    /\ pc = "reset"
    /\ pc' = "raised"
    /\ UNCHANGED <<variant, results, env, greward, hyper, eps, Q, history, i, locals,
                   ulocals, nsteps, nupdates, tsteps>>

(* Faulty variant of StepRaises: the exception caught in the loop, which   *)
(* is left as if the episode had ended.                                    *)
StepRaisesCaught ==
    /\ pc = "step"
    /\ pc' = "ret"
    /\ UNCHANGED <<variant, results, env, greward, hyper, eps, Q, history, i, locals,
                   ulocals, nsteps, nupdates, tsteps>>

StepRaises ==
    /\ pc = "step"
    /\ pc' = "raised"
    /\ UNCHANGED <<variant, results, env, greward, hyper, eps, Q, history, i, locals,
                   ulocals, nsteps, nupdates, tsteps>>

NextRaise ==
    \/ Next
    \/ ResetRaises
    \/ StepRaises

SpecRaise == Init /\ [][NextRaise]_vars

---------------------------------------------------------------------------
(* Definitions used to state the properties *)

(* Positions inside generate_sarsa_episode (and the return into train) *)
InEpisode == pc \in {"reset", "select", "step", "lookahead", "update", "ret"}

(* The vector Q[k] would give, whether or not the key is present *)
Vec(T, k) == Lookup(T, k)[k]

(* The maximum of a vector's entries *)
MaxValue(v) ==
    CHOOSE x \in {v[a] : a \in Actions} : \A a \in Actions : RLeq(v[a], x)

RECURSIVE SumUpTo(_, _)
SumUpTo(v, k) == IF k < 0 THEN Zero ELSE RAdd(SumUpTo(v, k - 1), v[k])

(* The sum of a vector's entries *)
SumVec(v) == SumUpTo(v, nA - 1)

(* old + alpha * (r + gamma * target - old) *)
TD(old, r, target) ==
    RAdd(old, RMul(alpha, RSub(RAdd(r, RMul(gamma, target)), old)))

(* max(e * eps_decay, eps_min) applied k times to e *)
RECURSIVE DecayTimes(_, _)
DecayTimes(e, k) ==
    IF k = 0 THEN e
    ELSE LET p == RMul(DecayTimes(e, k - 1), eps_decay)
         IN  IF RLess(p, eps_min) THEN eps_min ELSE p

(* A step that performs a table update *)
Updating == pc = "update" /\ pc' # "update"

---------------------------------------------------------------------------
(* C1: every table update computes Q[s][a] + alpha * (r + gamma * target - *)
(* Q[s][a]) with r the reward env.step returned in the same loop           *)
(* iteration (the local `reward` of generate_sarsa_episode).               *)
C1_UpdateUsesObservedReward ==
    [][Updating =>
        Q'[state][action] = TD(Vec(Q, state)[action], RInt(reward), Qsa')]_vars

(* C2: in SARSA the next_action whose value Q[next_state][next_action] is  *)
(* the bootstrap target of a non-terminal update is the action the         *)
(* environment is stepped with in the following step of the episode.       *)
C2_SarsaBootstrapActionIsNextAction ==
    /\ [][(variant = "SARSA" /\ Updating /\ ~done) =>
            /\ Qsa' = Vec(Q, next_state)[next_action]
            /\ u_next_action' = next_action]_vars
    /\ [][(variant = "SARSA" /\ pc = "step" /\ pc' # "step" /\ nupdates > 0) =>
            lastaction' = u_next_action]_vars

C2_Witness ==
    /\ variant = "SARSA"
    /\ pc = "lookahead"
    /\ nupdates >= 1
    /\ lastaction = u_next_action
    /\ Qsa # Zero

(* C3: in SARSAMAX the bootstrap target of a non-terminal update is the    *)
(* maximum over a of Q[next_state][a] on the table as it is just before    *)
(* the update, whatever eps is and whatever action is taken next; it is    *)
(* the target of the value stored.                                         *)
C3_SarsamaxTargetIsMax ==
    [][(variant = "SARSAMAX" /\ Updating /\ ~done) =>
        /\ Qsa' = MaxValue(Vec(Q, next_state))
        /\ Q'[state][action] =
              TD(Vec(Q, state)[action], RInt(greward[1]),
                 MaxValue(Vec(Q, next_state)))]_vars

C3_Witness ==
    /\ variant = "SARSAMAX"
    /\ pc = "select"
    /\ nupdates >= 1
    /\ Qsa # Zero
    /\ u_next_state = state
    /\ Vec(Q, state)[0] # Vec(Q, state)[1]
    /\ Qsa = MaxValue(Vec(Q, state))

(* C4: in Expected SARSA the bootstrap target of a non-terminal update is  *)
(* (eps / nA) * sum_a Q[next_state][a] + (1 - eps) * max_a                 *)
(* Q[next_state][a], with eps the decayed epsilon of the current episode.  *)
C4_ExpectedTarget ==
    [][(variant = "EXPECTED" /\ Updating /\ ~done) =>
        Qsa' = RAdd(RMul(RMul(DecayTimes(eps_arg, i), Rat(1, nA)),
                         SumVec(Vec(Q, next_state))),
                    RMul(RSub(One, DecayTimes(eps_arg, i)),
                         MaxValue(Vec(Q, next_state))))]_vars

C4_Witness ==
    /\ variant = "EXPECTED"
    /\ pc = "select"
    /\ nupdates >= 1
    /\ RLess(eps, One)
    /\ i = 2
    /\ eps # eps_arg
    /\ Qsa # Zero
    /\ Vec(Q, u_next_state)[0] # Vec(Q, u_next_state)[1]

(* C5: a terminal update (next_state is None) has bootstrap term 0: the    *)
(* value stored is Q[s][a] + alpha * (reward - Q[s][a]) with the reward    *)
(* the update reads, whatever gamma and the rest of the table are.         *)
C5_TerminalTargetIsReward ==
    [][(Updating /\ done) =>
        /\ Qsa' = Zero
        /\ Q'[state][action] =
              RAdd(Vec(Q, state)[action],
                   RMul(alpha, RSub(RInt(greward[1]),
                                    Vec(Q, state)[action])))]_vars

C5_Witness ==
    /\ pc = "ret"
    /\ gamma # One
    /\ alpha # One
    /\ i = 2
    /\ Qsa = Zero
    /\ \E a \in Actions : Vec(Q, state)[a] # Zero /\ a # action
    /\ Vec(Q, state)[action] # RMul(alpha, RInt(greward[1]))

(* C6: every env.step of an episode is followed by exactly one table       *)
(* update: a bootstrapped one when done is false, one with no next state   *)
(* when done is true, after which the episode makes no step and no update  *)
(* and returns.                                                            *)
C6_OneUpdatePerStep ==
    /\ [](pc \in {"lookahead", "update"} => nupdates + 1 = nsteps)
    /\ [](pc \in {"select", "step", "ret"} => nupdates = nsteps)
    /\ [](pc = "ret" => done /\ u_next_state = None)
    /\ [][nupdates' = nupdates + 1 =>
            /\ pc = "update"
            /\ done => (u_next_state' = None /\ pc' = "ret")
            /\ ~done => /\ u_next_state' = next_state
                        /\ next_state # None
                        /\ pc' \in {"select", "step"}]_vars
    /\ [][pc = "update" => pc' = "update" \/ nupdates' = nupdates + 1]_vars
    /\ [][pc = "ret" =>
            /\ nsteps' = nsteps
            /\ nupdates' = nupdates
            /\ Q' = Q
            /\ pc' \in {"ret", "for"}]_vars

C6_Witness ==
    /\ pc = "ret"
    /\ nsteps = 3
    /\ nupdates = 3
    /\ done

(* C7: epsilon is decayed before each episode runs: episode i runs with    *)
(* max(eps * eps_decay, eps_min) applied exactly i times to the initial    *)
(* eps (episode 1 with one application, not the raw eps), and epsilon does *)
(* not change while an episode is running.                                 *)
C7_EpsDecayedBeforeEpisode ==
    /\ [](InEpisode => i >= 1 /\ eps = DecayTimes(eps_arg, i))
    /\ [][InEpisode => eps' = eps]_vars

C7_Witness ==
    /\ pc = "update"
    /\ i = 2
    /\ eps_arg = One
    /\ eps = <<1, 4>>

(* C8: the epsilon passed to an episode is never below eps_min, also when  *)
(* the initial eps is below eps_min; and when the initial eps is at least  *)
(* eps_min, epsilon never increases from one episode to the next.          *)
C8_EpsFloorAndMonotone ==
    /\ [](InEpisode => RLeq(eps_min, eps))
    /\ [][RLeq(eps_min, eps_arg) => RLeq(eps', eps)]_vars

C8_Witness ==
    /\ pc = "step"
    /\ RLess(eps_arg, eps_min)
    /\ eps = eps_min
    /\ i = 2

(* C9, as claimed: repeated application of max(eps * decay, eps_min)       *)
(* reaches exactly eps_min after finitely many applications, for every     *)
(* initial eps and every eps_min (here: by the MaxApply-th application).   *)
C9_FloorReached == i = MaxApply => eps = eps_min

(* C9, amended: for eps_min > 0 it reaches exactly eps_min after finitely  *)
(* many applications and stays there on every later application.           *)
AtFloor == RLess(Zero, eps_min) => eps = eps_min

C9_FloorReachedAndKept ==
    /\ <>[]AtFloor
    /\ [][(RLess(Zero, eps_min) /\ eps = eps_min) => eps' = eps_min]_vars

C9_Witness ==
    /\ pc = "decay"
    /\ i = MaxApply
    /\ eps_arg = One
    /\ eps_decay = <<3, 4>>
    /\ eps_min = <<1, 5>>
    /\ eps = eps_min

(* C10: when train returns, the full reward history has num_episodes       *)
(* entries, the i-th appended at the end of episode i and equal to that    *)
(* episode's total reward; the history only grows by appending.            *)
C10_RewardHistory ==
    /\ [](pc = "done" => Len(all_rewards) = num_episodes)
    /\ [][all_rewards' # all_rewards =>
            /\ pc = "ret"
            /\ all_rewards' = Append(all_rewards, score)
            /\ Len(all_rewards') = i]_vars

C10_Witness ==
    /\ pc = "done"
    /\ num_episodes = 2
    /\ Len(all_rewards) = 2
    /\ all_rewards[1] # all_rewards[2]

(* C11: the averaged-reward series gets exactly one new entry (the mean of  *)
(* the trailing window) after each episode i with i mod plot_every = 0 and *)
(* none after any other episode; nothing is evicted from it, and when      *)
(* train returns its length is floor(num_episodes / plot_every).           *)
C11_AvgSeries ==
    /\ [](pc = "done" => Len(avg_rewards) = num_episodes \div plot_every)
    /\ [][(pc = "ret" /\ pc' # "ret") =>
            IF i % plot_every = 0
            THEN avg_rewards' = Append(avg_rewards, Mean(tmp_rewards'))
            ELSE avg_rewards' = avg_rewards]_vars
    /\ [][pc \notin {"ret", "call_train"} => avg_rewards' = avg_rewards]_vars

C11_Witness ==
    /\ pc = "done"
    /\ num_episodes = 2
    /\ plot_every = 1
    /\ Len(avg_rewards) = 2
    /\ avg_rewards[1] # avg_rewards[2]

(* C12: the first lookup of a key stores an all-zero vector of length nA;  *)
(* later lookups yield the stored vector with the values written since     *)
(* (an entry changes only by a store into Q[state][action], computed from  *)
(* the stored value), never a fresh zero vector; every entry is always a   *)
(* complete vector of length nA.                                           *)
C12_TableRows ==
    /\ [](\A k \in DOMAIN Q : DOMAIN Q[k] = Actions)
    /\ [][pc # "call_train" =>
            /\ DOMAIN Q \subseteq DOMAIN Q'
            /\ \A k \in DOMAIN Q' \ DOMAIN Q :
                  \A a \in Actions :
                    Q'[k][a] # Zero => Updating /\ k = state /\ a = action
            /\ \A k \in DOMAIN Q :
                  \A a \in Actions :
                    Q'[k][a] # Q[k][a] => Updating /\ k = state /\ a = action
            /\ Updating =>
                  Q'[state][action] =
                     TD(Vec(Q, state)[action], RInt(greward[1]), Qsa')]_vars

C12_Witness ==
    /\ variant = "SARSAMAX"
    /\ pc = "step"
    /\ RLess(eps, One)
    /\ nupdates >= 2
    /\ Q[0][0] # Zero
    /\ Q[0][1] # Zero
    /\ state = 0
    /\ action = argmax(Q[0])

(* C13: a call of eps_greedy leaves the action-value table as it was: the  *)
(* same keys and the same values, for every eps and every state, a state   *)
(* never looked up before included.                                        *)
C13_EpsGreedyKeepsTable ==
    [][(pc \in {"select", "lookahead"}) => Q' = Q]_vars

(* C14: eps_greedy returns an action in 0..nA-1; with eps = 0 always the   *)
(* argmax of Q[state]; with eps >= 1 always by the exploration branch      *)
(* (Q[state] is not evaluated), every action being a possible result; with *)
(* 0 < eps < 1 both branches are possible.                                 *)
C14_EpsGreedyResult ==
    /\ [][pc = "choose" =>
            /\ action' \in Actions
            /\ eps = Zero => action' = argmax(Vec(Q, state))
            /\ RLeq(One, eps) => Q' = Q]_vars
    /\ [](pc = "choose" =>
            /\ eps = Zero =>
                  {o.action : o \in eps_greedy(eps, Q, state)} =
                     {argmax(Vec(Q, state))}
            /\ RLess(Zero, eps) =>
                  {o.action : o \in eps_greedy(eps, Q, state)} = Actions
            /\ RLeq(One, eps) =>
                  \A o \in eps_greedy(eps, Q, state) : o.Q = Q
            /\ (RLess(Zero, eps) /\ RLess(eps, One)) =>
                  /\ \E o \in eps_greedy(eps, Q, state) :
                        o.Q = Lookup(Q, state)
                  /\ state \notin DOMAIN Q =>
                        \E o \in eps_greedy(eps, Q, state) : o.Q = Q)

C14_Witness ==
    /\ pc = "chosen"
    /\ eps = Zero
    /\ state \in DOMAIN Q
    /\ RLess(Q[state][0], Q[state][1])
    /\ action = 1

(* C15: at every point of training a key of the table is an environment    *)
(* state (one the agent visited); no other key, such as None, is present.  *)
C15_KeysAreEnvStates == \A k \in DOMAIN Q : k \in States

(* C16: a train call with an invalid configuration (here num_episodes <=   *)
(* 0) is rejected at entry: it returns no result.                          *)
C16_InvalidConfigRejected == num_episodes <= 0 => pc # "done"

(* C17: when env.reset or env.step raises during an episode, the error     *)
(* leaves the episode runner and train: no retry, no further environment   *)
(* call or table update, no reward appended for the episode, no result.    *)
C17_EnvErrorPropagates ==
    /\ [][(\/ pc = "reset" /\ pc' \notin {"reset", "select"}
           \/ pc = "step" /\ pc' \notin {"step", "lookahead", "update"}) =>
            /\ pc' = "raised"
            /\ Q' = Q
            /\ history' = history
            /\ env' = env]_vars
    /\ [][pc # "raised"]_vars
    /\ [](pc = "raised" => Len(all_rewards) = i - 1)

C17_Witness ==
    /\ pc = "raised"
    /\ i = 2
    /\ nsteps >= 1
    /\ Len(all_rewards) = 1

(* C18: train runs exactly num_episodes episodes, one env.reset each, and  *)
(* then returns: an episode starts only from the loop head with i raised   *)
(* by one and i <= num_episodes, train returns only with i = num_episodes, *)
(* and an episode is left only after the environment reported done.        *)
C18_ExactlyNEpisodes ==
    /\ [](pc = "done" => i = num_episodes)
    /\ [](InEpisode => 1 <= i /\ i <= num_episodes)
    /\ [][(pc' = "reset" /\ pc # "reset") => (pc = "for" /\ i' = i + 1)]_vars
    /\ [][(pc = "reset" /\ pc' # "reset") =>
            (pc' = "select" /\ envState' = EnvReset)]_vars
    /\ [][(pc = "for" /\ pc' # "for") =>
            IF i < num_episodes THEN pc' = "reset" ELSE pc' = "done"]_vars
    /\ [][(InEpisode /\ ~InEpisode') => (pc = "ret" /\ done /\ pc' = "for")]_vars
    /\ [][pc' = "ret" /\ pc # "ret" => done']_vars

C18_Witness ==
    /\ pc = "done"
    /\ num_episodes = 2
    /\ i = 2
    /\ tsteps >= 5

(* C19: episodes run one after another on one table: between the terminal  *)
(* update of an episode and the first action selection of the next one the *)
(* table does not change, and during training no key is ever dropped.      *)
C19_SharedTable ==
    /\ [][(pc \in {"ret", "for", "reset"}) => Q' = Q]_vars
    /\ [][pc # "call_train" => DOMAIN Q \subseteq DOMAIN Q']_vars

C19_Witness ==
    /\ pc = "select"
    /\ i = 2
    /\ nsteps = 0
    /\ \E k \in DOMAIN Q : Q[k] # Zeros

Tol == Rat(1, Pow2(FloatBits))

Near(x, y, t) == RLeq(RSub(x, y), t) /\ RLeq(RSub(y, x), t)

---------------------------------------------------------------------------
(* C22: the greedy-policy extraction gives the sentinel -1 exactly to the  *)
(* states without an entry in the table whose vectors it reads, the argmax *)
(* of the stored vector to every state with an entry in that table, and    *)
(* adds no entry to that table.                                            *)
C22_ExtractionOverReadTable ==
    [][pc = "extract" =>
        /\ \A key \in States :
              policy'[key] = IF key \in DOMAIN ReadTable
                             THEN argmax(ReadTable[key])
                             ELSE Sentinel
        /\ ReadTable' = ReadTable]_vars

(* C23: a step of an episode changes the value of at most one table entry, *)
(* Q[state][action] for the current state and the action just executed     *)
(* from it; every other value already stored (the other actions of that    *)
(* state, all other states) is unchanged, in all three variants.           *)
Changed ==
    {e \in (DOMAIN Q) \X Actions : Q'[e[1]][e[2]] # Q[e[1]][e[2]]}

C23_OneEntryPerStep ==
    /\ [][InEpisode =>
            /\ DOMAIN Q \subseteq DOMAIN Q'
            /\ Changed \subseteq {<<state, action>>}
            /\ Changed # {} => Updating]_vars
    /\ [](pc = "update" =>
            /\ action = lastaction
            /\ EnvStep(state, action).next_state = envState)

C23_Witness ==
    /\ pc \in {"select", "step", "ret"}
    /\ nupdates >= 2
    /\ state = 0
    /\ 1 \in DOMAIN Q
    /\ Q[1] # Zeros
    /\ Q[0][0] # Zero
    /\ Q[0][1] # Zero
    /\ Q[0][0] # Q[0][1]

(* C24: in SARSAMAX and Expected SARSA the action executed at step t+1 is  *)
(* selected after the update of step t is written, from the updated table; *)
(* in SARSA the next action is selected while the update of the current    *)
(* (state, action) pair is still to be written, from the table before the  *)
(* update, also when next_state equals state, and it is the action         *)
(* executed next.                                                          *)
C24_SelectionOrder ==
    /\ [][(variant # "SARSA" /\ Updating /\ ~done) => pc' = "select"]_vars
    /\ [][(variant # "SARSA" /\ pc = "select" /\ pc' = "step") =>
            /\ nupdates = nsteps
            /\ \E o \in eps_greedy(eps, Q, state) : action' = o.action]_vars
    /\ [][(variant = "SARSA" /\ pc = "lookahead" /\ pc' = "update") =>
            /\ nupdates + 1 = nsteps
            /\ \E o \in eps_greedy(eps, Q, next_state) :
                  next_action' = o.action]_vars
    /\ [][(variant = "SARSA" /\ Updating /\ ~done) =>
            /\ action' = next_action
            /\ pc' = "step"]_vars
    /\ [][(pc = "step" /\ pc' # "step") => lastaction' = action]_vars
    /\ [](variant = "SARSA" /\ pc = "select" => nsteps = 0)

C24_Witness ==
    /\ variant = "SARSA"
    /\ pc = "step"
    /\ nupdates >= 1
    /\ u_next_state = state
    /\ state = 0
    /\ action = 0
    /\ u_next_action = 0
    /\ Q[0][0] # Zero
    /\ argmax(Q[0]) = 1

(* C25: when several actions share the maximum value of a state, every     *)
(* greedy choice (the greedy branch of eps_greedy, the argmax of the        *)
(* SARSAMAX target, the greedy action of the Expected SARSA policy) is the  *)
(* maximizing action of lowest index; for an all-zero vector it is 0.       *)
LowestMax(a, v) ==
    /\ a \in Actions
    /\ \A b \in Actions : RLeq(v[b], v[a])
    /\ \A b \in Actions : v[b] = v[a] => a <= b

C25_TiesToLowestIndex ==
    /\ [](\A s \in DOMAIN Q \cup States :
            \A o \in eps_greedy(Zero, Q, s) :
               /\ LowestMax(o.action, Vec(Q, s))
               /\ Vec(Q, s) = Zeros => o.action = 0)
    /\ [][(pc \in {"select", "lookahead"} /\ Q' # Q) =>
            IF pc = "select" THEN action' = 0 ELSE next_action' = 0]_vars
    /\ [][(variant = "SARSAMAX" /\ Updating) =>
            /\ LowestMax(u_next_action', Vec(Q, next_state))
            /\ Vec(Q, next_state) = Zeros => u_next_action' = 0]_vars
    /\ [][(variant = "EXPECTED" /\ Updating /\ ~done) =>
            \E g \in Actions :
               /\ LowestMax(g, Vec(Q, next_state))
               /\ Vec(Q, next_state) = Zeros => g = 0
               /\ u_policy'[g] = RAdd(RSub(One, eps), RMul(eps, Rat(1, nA)))
               /\ \A b \in Actions \ {g} :
                     u_policy'[b] = RMul(eps, Rat(1, nA))]_vars

C25_Witness ==
    /\ variant = "SARSAMAX"
    /\ pc = "select"
    /\ nupdates >= 1
    /\ u_next_state = 0
    /\ Q[0][0] = Q[0][1]
    /\ Q[0][0] # Zero
    /\ Q[1][0] # Zero
    /\ u_next_action = 0

C27_ScoreIsSumOfStepRewards ==
    /\ [][(pc = "reset" /\ pc' # "reset") => score' = 0]_vars
    /\ [][(pc = "step" /\ pc' # "step") =>
            /\ reward' = EnvStep(envState, action).reward
            /\ done' = EnvStep(envState, action).done
            /\ score' = score + reward']_vars
    /\ [][(pc \in {"select", "lookahead", "update"}) => score' = score]_vars
    /\ [][(pc = "ret" /\ pc' # "ret") =>
            /\ done
            /\ all_rewards' = Append(all_rewards, score)
            /\ Q' = Q]_vars

C27_Witness ==
    /\ pc = "ret"
    /\ nsteps = 3
    /\ reward = -1
    /\ score = -12
    /\ Q # <<>>

(* C28: the episode runner keeps to the environment protocol in every      *)
(* variant: an episode calls env.reset once, before its first env.step,    *)
(* and after an env.step has reported done no env.step is issued until the *)
(* next episode's env.reset.                                               *)
C28_EnvProtocol ==
    /\ [](pc = "step" => ~done /\ envState = state /\ state \in States)
    /\ [][(done /\ pc # "reset") =>
            /\ envState' = envState
            /\ lastaction' = lastaction]_vars
    /\ [][(pc = "reset" /\ pc' # "reset") =>
            /\ envState' = EnvReset
            /\ nsteps' = 0
            /\ ~done'
            /\ pc' = "select"]_vars
    /\ [][(pc' = "reset" /\ pc # "reset") =>
            /\ pc = "for"
            /\ i' = i + 1]_vars
    /\ [][(InEpisode /\ pc # "reset" /\ envState' # envState) =>
            /\ pc = "step"
            /\ nsteps' = nsteps + 1]_vars

C28_Witness ==
    /\ pc = "step"
    /\ i = 2
    /\ nsteps = 0
    /\ envState = EnvReset
    /\ Len(all_rewards) = 1
    /\ u_next_state = None
    /\ nupdates = 0

(* C29: an entry Q[s][a] is written only when action a has just been       *)
(* executed from state s; so the vector of a key from which no action was   *)
(* ever executed (the terminal state's entry made by SARSA's look-ahead, an *)
(* entry made only by a target lookup) stays all-zero throughout training.  *)
Terminal ==
    {t \in States : \E s \in States : \E a \in Actions :
                       EnvStep(s, a).done /\ EnvStep(s, a).next_state = t}

C29_WrittenOnlyWhereExecuted ==
    /\ [][pc # "call_train" =>
            \A k \in DOMAIN Q' :
               \A a \in Actions :
                  Q'[k][a] # Vec(Q, k)[a] =>
                     /\ pc = "update"
                     /\ k = state
                     /\ a = lastaction
                     /\ k \in States \ Terminal
                     /\ EnvStep(k, a).next_state = envState]_vars
    /\ [](\A k \in DOMAIN Q : k \notin States \ Terminal => Q[k] = Zeros)

C29_Witness ==
    /\ variant = "SARSA"
    /\ pc = "done"
    /\ num_episodes = 2
    /\ States \subseteq DOMAIN Q
    /\ \A k \in Terminal : Q[k] = Zeros
    /\ \A k \in States \ Terminal : Q[k][1] # Zero

===========================================================================
